---------------------------- MODULE Spec2Model ----------------------------
(* Verification model of the two batch tools of the question-bank          *)
(* repository: the Namespace Normalizer (src/fix-namespaces.py) and the    *)
(* Markdown-to-JSON Extractor (src/script.py).                             *)
(*                                                                         *)
(* Strings are sequences of tokens.  A token is either a single character  *)
(* ("|", " ", "#", "\n", a digit, "q", "x") or an atomic run of characters *)
(* that no regular expression of the code can split: a namespace name, a   *)
(* flag ("-n", "--namespace"), a fence of three backticks ("FENCE"), a     *)
(* fence tag ("bash"), the heading marker ("###"), a file suffix.  "x"     *)
(* stands for a word character that is part of no namespace name.          *)
EXTENDS Integers, Sequences, FiniteSets, TLC

VARIABLES names, perms, disk, start, pc, idx, question, total_files,
          updated_files, attempts, results, run,
          md, epc, fileIdx, secIdx, current_id, out

normVars == <<names, perms, disk, start, pc, idx, question, total_files,
              updated_files, attempts, results, run>>
extVars == <<md, epc, fileIdx, secIdx, current_id, out>>
vars == <<names, perms, disk, start, pc, idx, question, total_files,
          updated_files, attempts, results, run,
          md, epc, fileIdx, secIdx, current_id, out>>

-----------------------------------------------------------------------------
(* Bounds of the model                                                     *)
MaxNameLen == 3
MaxNs == 2
MaxDescParts == 5
MaxCmdParts == 3
MaxFiles == 2
MaxRuns == 2
MaxMdFiles == 2
MaxMdLines == 2
MaxBlockLines == 5

-----------------------------------------------------------------------------
(* Generic sequence helpers                                                *)
RECURSIVE SeqsUpTo(_, _)
SeqsUpTo(S, n) ==
  IF n = 0 THEN {<<>>}
  ELSE LET shorter == SeqsUpTo(S, n - 1)
       IN shorter \cup {Append(s, e) : s \in {t \in shorter : Len(t) = n - 1}, e \in S}

RECURSIVE Concat(_)
Concat(ss) == IF ss = <<>> THEN <<>> ELSE Head(ss) \o Concat(Tail(ss))

Range(s) == {s[i] : i \in 1..Len(s)}

(* F applied to the value of v, with v evaluated once *)
Bind(v, F(_)) == CHOOSE r \in {F(x) : x \in {v}} : TRUE

(* An optional JSON member: <<>> when the key is absent, <<v>> when present *)
Absent == <<>>
Present(v) == <<v>>

-----------------------------------------------------------------------------
(* ===================== Namespace Normalizer ============================ *)

NAMESPACES == <<"saturn", "venus", "pluto", "mars", "mercury", "jupiter", "uranus", "neptune">>

NamespaceSet == Range(NAMESPACES)

get_namespace_off_by_one(question_num) == NAMESPACES[((question_num + 1) % 8) + 1]

get_namespace(question_num) == NAMESPACES[(question_num % 8) + 1]

DigitChars == <<"0", "1", "2", "3", "4", "5", "6", "7", "8", "9">>

IsDigit(c) == c \in Range(DigitChars)

DigitVal(c) == CHOOSE d \in 0..9 : DigitChars[d + 1] = c

(* int(): decimal value of a run of digits *)
RECURSIVE IntOf(_)
IntOf(ds) ==
  IF ds = <<>> THEN 0
  ELSE IntOf(SubSeq(ds, 1, Len(ds) - 1)) * 10 + DigitVal(ds[Len(ds)])

(* re.search(r'(\d+)', filename): the leftmost, longest run of digits;     *)
(* <<>> when the name holds no digit                                       *)
RECURSIVE DigitRunEnd(_, _)
DigitRunEnd(name, i) ==
  IF i < Len(name) /\ IsDigit(name[i + 1]) THEN DigitRunEnd(name, i + 1) ELSE i

FirstDigitRun(name) ==
  LET ps == {i \in 1..Len(name) : IsDigit(name[i])}
  IN IF ps = {} THEN <<>>
     ELSE LET p == CHOOSE i \in ps : \A j \in ps : i <= j
          IN SubSeq(name, p, DigitRunEnd(name, p))

HasNumber(name) == FirstDigitRun(name) # <<>>

QuestionNum(name) == IntOf(FirstDigitRun(name))

EndsWithJson(name) == Len(name) > 0 /\ name[Len(name)] = ".json"

(* \w : first character of the token is a word character *)
IsWordStart(t) == t \in NamespaceSet \cup {"x"} \cup Range(DigitChars) \cup {"q"}

IsSpace(t) == t \in {" ", "\n"}

(* r'\|\|' + old_ns + r'\|\|' matches at position i *)
MarkerAt(s, i, ns) ==
  /\ i >= 1
  /\ i + 4 <= Len(s)
  /\ s[i] = "|" /\ s[i + 1] = "|" /\ s[i + 2] = ns /\ s[i + 3] = "|" /\ s[i + 4] = "|"

(* re.sub: leftmost non-overlapping matches, scanned left to right *)
RECURSIVE SubMarkerFrom(_, _, _, _)
SubMarkerFrom(s, i, old_ns, assigned) ==
  IF i > Len(s) THEN <<>>
  ELSE IF MarkerAt(s, i, old_ns)
       THEN <<"|", "|", assigned, "|", "|">> \o SubMarkerFrom(s, i + 5, old_ns, assigned)
       ELSE <<s[i]>> \o SubMarkerFrom(s, i + 1, old_ns, assigned)

SubMarker(s, old_ns, assigned) == SubMarkerFrom(s, 1, old_ns, assigned)

(* \s+ starting at i: index of the first token after the run of spaces *)
RECURSIVE SkipSpaces(_, _)
SkipSpaces(s, i) == IF i <= Len(s) /\ IsSpace(s[i]) THEN SkipSpaces(s, i + 1) ELSE i

(* flag + r'\s+' + old_ns + r'\b' matches at i: 0 when it does not, else   *)
(* the index of the last token of the match                                *)
FlagMatchEnd(s, i, flag, ns) ==
  IF i >= 1 /\ i + 2 <= Len(s) /\ s[i] = flag /\ IsSpace(s[i + 1])
  THEN LET j == SkipSpaces(s, i + 1)
       IN IF j <= Len(s) /\ s[j] = ns /\ (j = Len(s) \/ ~IsWordStart(s[j + 1]))
          THEN j ELSE 0
  ELSE 0

RECURSIVE SubFlagFrom(_, _, _, _, _)
SubFlagFrom(s, i, flag, old_ns, assigned) ==
  IF i > Len(s) THEN <<>>
  ELSE LET e == FlagMatchEnd(s, i, flag, old_ns)
       IN IF e > 0
          THEN <<flag, " ", assigned>> \o SubFlagFrom(s, e + 1, flag, old_ns, assigned)
          ELSE <<s[i]>> \o SubFlagFrom(s, i + 1, flag, old_ns, assigned)

SubFlag(s, flag, old_ns, assigned) == SubFlagFrom(s, 1, flag, old_ns, assigned)

(* for old_ns in NAMESPACES: if old_ns != assigned: description = re.sub   *)
RECURSIVE FixDescriptionFrom(_, _, _)
FixDescriptionFrom(description, k, assigned) ==
  IF k > Len(NAMESPACES) THEN description
  ELSE IF NAMESPACES[k] # assigned
       THEN Bind(SubMarker(description, NAMESPACES[k], assigned),
                 LAMBDA d : FixDescriptionFrom(d, k + 1, assigned))
       ELSE FixDescriptionFrom(description, k + 1, assigned)

FixDescription(description, assigned) == FixDescriptionFrom(description, 1, assigned)

(* the same loop for one step or one validation command *)
RECURSIVE FixCommandFrom(_, _, _)
FixCommandFrom(step, k, assigned) ==
  IF k > Len(NAMESPACES) THEN step
  ELSE IF NAMESPACES[k] # assigned
       THEN Bind(SubFlag(step, "-n", NAMESPACES[k], assigned),
                 LAMBDA s1 :
                   Bind(SubFlag(s1, "--namespace", NAMESPACES[k], assigned),
                        LAMBDA s2 : FixCommandFrom(s2, k + 1, assigned)))
       ELSE FixCommandFrom(step, k + 1, assigned)

FixCommand_short_flag_only(step, assigned) ==
  LET RECURSIVE F(_, _)
      F(s, k) == IF k > Len(NAMESPACES) THEN s
                 ELSE IF NAMESPACES[k] # assigned
                      THEN F(SubFlag(s, "-n", NAMESPACES[k], assigned), k + 1)
                      ELSE F(s, k + 1)
  IN F(step, 1)

FixCommand(step, assigned) == FixCommandFrom(step, 1, assigned)

FixNamespaces(nsField, assigned) ==
  IF nsField # Absent
     /\ Len(nsField[1]) = 1
     /\ nsField[1][1] \in NamespaceSet \cup {""}
  THEN Present(<<assigned>>)
  ELSE nsField

FixValidation(validation, assigned) ==
  IF validation.command # Absent
  THEN [validation EXCEPT !.command = Present(FixCommand(validation.command[1], assigned))]
  ELSE validation

(* the in-memory transformation of fix_question_file: the document that    *)
(* json.dump writes back                                                   *)
FixDoc(doc, assigned) ==
  [namespaces |-> FixNamespaces(doc.namespaces, assigned),
   description |->
     IF doc.description # Absent
     THEN Present(FixDescription(doc.description[1], assigned))
     ELSE Absent,
   steps |->
     IF doc.steps # Absent
     THEN Present([i \in 1..Len(doc.steps[1]) |-> FixCommand(doc.steps[1][i], assigned)])
     ELSE Absent,
   validations |->
     IF doc.validations # Absent
     THEN Present([i \in 1..Len(doc.validations[1]) |->
                     FixValidation(doc.validations[1][i], assigned)])
     ELSE Absent]

-----------------------------------------------------------------------------
(* Files of the question bank.  A file on disk is "full" (a complete JSON  *)
(* document), "garbage" (not JSON), "empty" (truncated by open(.., 'w'))   *)
(* or "partial" (an interrupted json.dump).                                *)
EmptyDoc == [namespaces |-> Absent, description |-> Absent, steps |-> Absent,
             validations |-> Absent]

FullFile(doc) == [st |-> "full", doc |-> doc]

GarbageFile == [st |-> "garbage", doc |-> EmptyDoc]

(* Input sets *)
NameChars == {"q", "1", "6"}

RichNames == {stem \o <<".json">> : stem \in SeqsUpTo(NameChars, MaxNameLen)}

SmallNames == {<<"q", "1", ".json">>, <<"q", "1", "1", ".json">>, <<"q", "1", "6", ".json">>}

NsAlphabet == {"", "neptune", "custom"}

NsFields == {Absent} \cup {Present(s) : s \in SeqsUpTo(NsAlphabet, MaxNs)}

VenusMarker == <<"|", "|", "venus", "|", "|">>

VenusStep == <<"x", " ", "-n", " ", "venus">>

NsCaseDocs ==
  {[namespaces |-> ns, description |-> r.d, steps |-> r.st, validations |-> Absent] :
     ns \in NsFields,
     r \in {[d |-> Absent, st |-> Absent],
            [d |-> Present(VenusMarker), st |-> Present(<<VenusStep>>)]}}

DescParts == {<<"|", "|">>, <<"venus">>, <<"mars">>, <<"x">>}

Descriptions == {Concat(ps) : ps \in SeqsUpTo(DescParts, MaxDescParts)}

DescCaseDocs ==
  {[namespaces |-> Present(<<"">>), description |-> Present(d), steps |-> Absent,
    validations |-> Absent] : d \in Descriptions}

CmdParts == {<<"-n", " ", "venus">>, <<"-n", " ", " ", "mars">>,
             <<"--namespace", " ", "venus">>, <<"--namespace", "\n", "saturn">>,
             <<"x">>, <<" ">>, <<"-n">>}

Commands == {Concat(ps) : ps \in SeqsUpTo(CmdParts, MaxCmdParts)}

CmdCaseDocs ==
  {[namespaces |-> Present(<<"venus">>), description |-> Absent,
    steps |-> Present(<<c, VenusStep>>),
    validations |-> Present(<<[command |-> Present(c)], [command |-> Absent]>>)] :
     c \in Commands}

SmallDoc == [namespaces |-> Present(<<"">>), description |-> Present(VenusMarker),
             steps |-> Present(<<VenusStep>>), validations |-> Absent]

ExtIdle ==
  /\ md = <<>>
  /\ epc = "idle"
  /\ fileIdx = 1
  /\ secIdx = 1
  /\ current_id = 0
  /\ out = <<>>

NormStart(ns, ps, ds) ==
  /\ names = ns
  /\ perms = ps
  /\ disk = ds
  /\ start = ds
  /\ pc = "walk"
  /\ idx = 1
  /\ question = EmptyDoc
  /\ total_files = 0
  /\ updated_files = 0
  /\ attempts = [i \in 1..Len(ns) |-> 0]
  /\ results = [i \in 1..Len(ns) |-> "none"]
  /\ run = 1

(* one healthy file with a rich document *)
InitRich ==
  \/ \E n \in RichNames, d \in NsCaseDocs : NormStart(<<n>>, <<"rw">>, <<FullFile(d)>>)
  \/ \E n \in SmallNames, d \in DescCaseDocs \cup CmdCaseDocs :
       NormStart(<<n>>, <<"rw">>, <<FullFile(d)>>)

(* the kinds of file a tree holds: a fault-free question file, a file    *)
(* without a number in its name, a file that is not .json, an unreadable   *)
(* file, a file that is not JSON, a read-only file, a file on a full disk  *)
FileKinds ==
  {[name |-> <<"q", "1", ".json">>, perm |-> "rw", file |-> FullFile(SmallDoc)],
   [name |-> <<"q", ".json">>, perm |-> "rw", file |-> FullFile(SmallDoc)],
   [name |-> <<"q", "6", ".txt">>, perm |-> "rw", file |-> FullFile(SmallDoc)],
   [name |-> <<"q", "1", ".json">>, perm |-> "noread", file |-> FullFile(SmallDoc)],
   [name |-> <<"q", "1", ".json">>, perm |-> "rw", file |-> GarbageFile],
   [name |-> <<"q", "1", ".json">>, perm |-> "nowrite", file |-> FullFile(SmallDoc)],
   [name |-> <<"q", "1", ".json">>, perm |-> "nospace", file |-> FullFile(SmallDoc)]}

(* a tree of several files, some of which fail *)
InitTree ==
  \E k \in 1..MaxFiles :
    \E fs \in [1..k -> FileKinds] :
      NormStart([i \in 1..k |-> fs[i].name], [i \in 1..k |-> fs[i].perm],
                [i \in 1..k |-> fs[i].file])

InitNorm == (InitRich \/ InitTree) /\ ExtIdle

(* fix_question_file returns to main: updated_files += 1 on True, and the  *)
(* walk moves on to the next file                                          *)
ReturnToMain(ok) ==
  /\ results' = [results EXCEPT ![idx] = IF ok THEN "ok" ELSE "fail"]
  /\ updated_files' = IF ok THEN updated_files + 1 ELSE updated_files
  /\ idx' = idx + 1
  /\ pc' = "walk"
  /\ question' = EmptyDoc

AtFile == pc = "walk" /\ idx <= Len(names)

(* os.walk yields a file that does not end with '.json' *)
SkipFile ==
  /\ AtFile
  /\ ~EndsWithJson(names[idx])
  /\ idx' = idx + 1
  /\ UNCHANGED <<names, perms, disk, start, pc, question, total_files,
                 updated_files, attempts, results, run>>
  /\ UNCHANGED extVars

Enter ==
  /\ AtFile
  /\ EndsWithJson(names[idx])
  /\ total_files' = total_files + 1
  /\ attempts' = [attempts EXCEPT ![idx] = @ + 1]

LoadFail_abort ==
  /\ Enter
  /\ perms[idx] = "noread" \/ disk[idx].st # "full"
  /\ results' = [results EXCEPT ![idx] = "fail"]
  /\ idx' = Len(names) + 1
  /\ UNCHANGED <<names, perms, disk, start, run, pc, question, updated_files>>
  /\ UNCHANGED extVars

(* open(file_path, 'r') or json.load raises: caught, returns False *)
LoadFail ==
  /\ Enter
  /\ perms[idx] = "noread" \/ disk[idx].st # "full"
  /\ ReturnToMain(FALSE)
  /\ UNCHANGED <<names, perms, disk, start, run>>
  /\ UNCHANGED extVars

Loaded == Enter /\ perms[idx] # "noread" /\ disk[idx].st = "full"

(* no digits in the file name: returns False without writing *)
NoNumber ==
  /\ Loaded
  /\ ~HasNumber(names[idx])
  /\ ReturnToMain(FALSE)
  /\ UNCHANGED <<names, perms, disk, start, run>>
  /\ UNCHANGED extVars

(* lines 30-74: the document is transformed in memory *)
Transform ==
  /\ Loaded
  /\ HasNumber(names[idx])
  /\ question' = FixDoc(disk[idx].doc, get_namespace(QuestionNum(names[idx])))
  /\ pc' = "write"
  /\ UNCHANGED <<names, perms, disk, start, idx, updated_files, results, run>>
  /\ UNCHANGED extVars

(* open(file_path, 'w') raises: caught, returns False, file not truncated *)
OpenWriteFail ==
  /\ pc = "write"
  /\ perms[idx] = "nowrite"
  /\ ReturnToMain(FALSE)
  /\ UNCHANGED <<names, perms, disk, start, total_files, attempts, run>>
  /\ UNCHANGED extVars

(* open(file_path, 'w') truncates the file *)
OpenWrite ==
  /\ pc = "write"
  /\ perms[idx] # "nowrite"
  /\ disk' = [disk EXCEPT ![idx] = [st |-> "empty", doc |-> EmptyDoc]]
  /\ pc' = "dump"
  /\ UNCHANGED <<names, perms, start, idx, question, total_files, updated_files,
                 attempts, results, run>>
  /\ UNCHANGED extVars

(* json.dump raises part-way (no space left): caught, returns False *)
DumpFail ==
  /\ pc = "dump"
  /\ perms[idx] = "nospace"
  /\ disk' = [disk EXCEPT ![idx] = [st |-> "partial", doc |-> EmptyDoc]]
  /\ ReturnToMain(FALSE)
  /\ UNCHANGED <<names, perms, start, total_files, attempts, run>>
  /\ UNCHANGED extVars

(* json.dump completes, the file is closed, returns True *)
Dump ==
  /\ pc = "dump"
  /\ perms[idx] # "nospace"
  /\ disk' = [disk EXCEPT ![idx] = FullFile(question)]
  /\ ReturnToMain(TRUE)
  /\ UNCHANGED <<names, perms, start, total_files, attempts, run>>
  /\ UNCHANGED extVars

(* the walk is exhausted: the summary is printed *)
Summary ==
  /\ pc = "walk"
  /\ idx > Len(names)
  /\ pc' = "summary"
  /\ UNCHANGED <<names, perms, disk, start, idx, question, total_files,
                 updated_files, attempts, results, run>>
  /\ UNCHANGED extVars

(* the script is run again over the tree the previous run left *)
Rerun ==
  /\ pc = "summary"
  /\ run < MaxRuns
  /\ run' = run + 1
  /\ start' = disk
  /\ pc' = "walk"
  /\ idx' = 1
  /\ total_files' = 0
  /\ updated_files' = 0
  /\ attempts' = [i \in 1..Len(names) |-> 0]
  /\ results' = [i \in 1..Len(names) |-> "none"]
  /\ UNCHANGED <<names, perms, disk, question>>
  /\ UNCHANGED extVars

(* the process is killed while it runs *)
Crash ==
  /\ pc \in {"walk", "write", "dump"}
  /\ pc' = "crashed"
  /\ UNCHANGED <<names, perms, disk, start, idx, question, total_files,
                 updated_files, attempts, results, run>>
  /\ UNCHANGED extVars

NextNorm ==
  \/ SkipFile
  \/ LoadFail
  \/ NoNumber
  \/ Transform
  \/ OpenWriteFail
  \/ OpenWrite
  \/ DumpFail
  \/ Dump
  \/ Summary
  \/ Rerun

NextCrash == NextNorm \/ Crash

SpecNorm == InitNorm /\ [][NextNorm]_vars

InitTreeOnly == InitTree /\ ExtIdle

(* a started run executes its next statement: every step of the script is  *)
(* weakly fair; running the script again is up to the user                 *)
FairSpecTree ==
  /\ InitTreeOnly
  /\ [][NextNorm]_vars
  /\ WF_vars(SkipFile) /\ WF_vars(LoadFail) /\ WF_vars(NoNumber) /\ WF_vars(Transform)
  /\ WF_vars(OpenWriteFail) /\ WF_vars(OpenWrite) /\ WF_vars(DumpFail) /\ WF_vars(Dump)
  /\ WF_vars(Summary)

SpecCrash == InitNorm /\ [][NextCrash]_vars

-----------------------------------------------------------------------------
(* ================== Markdown-to-JSON Extractor ========================= *)

ID_PREFIX == "ckad-i-"

START_ID == 101

(* least j >= i with t[j] = tok, 0 when there is none *)
RECURSIVE IndexFrom(_, _, _)
IndexFrom(t, tok, i) ==
  IF i > Len(t) THEN 0 ELSE IF t[i] = tok THEN i ELSE IndexFrom(t, tok, i + 1)

(* str.strip() *)
RECURSIVE LStrip(_)
LStrip(s) == IF s # <<>> /\ IsSpace(Head(s)) THEN LStrip(Tail(s)) ELSE s

RECURSIVE RStrip(_)
RStrip(s) ==
  IF s # <<>> /\ IsSpace(s[Len(s)]) THEN RStrip(SubSeq(s, 1, Len(s) - 1)) ELSE s

Strip(s) == RStrip(LStrip(s))

(* str.split("\n") *)
RECURSIVE SplitLines(_)
SplitLines(s) ==
  LET j == IndexFrom(s, "\n", 1)
  IN IF j = 0 THEN <<s>>
     ELSE <<SubSeq(s, 1, j - 1)>> \o SplitLines(SubSeq(s, j + 1, Len(s)))

(* re.finditer(r"### (.+)", text): start of the match, the title group     *)
(* and the last position of the match; '.' matches all but a newline       *)
HeadingAt(t, p) ==
  p + 2 <= Len(t) /\ t[p] = "###" /\ t[p + 1] = " " /\ t[p + 2] # "\n"

RECURSIVE HeadingMatchesFrom(_, _)
HeadingMatchesFrom(t, p) ==
  IF p > Len(t) THEN <<>>
  ELSE IF HeadingAt(t, p)
       THEN LET nl == IndexFrom(t, "\n", p + 2)
                e == IF nl = 0 THEN Len(t) ELSE nl - 1
            IN <<[start |-> p, title |-> SubSeq(t, p + 2, e), end |-> e]>>
                 \o HeadingMatchesFrom(t, e + 1)
       ELSE HeadingMatchesFrom(t, p + 1)

HeadingMatches(text) == HeadingMatchesFrom(text, 1)

(* block = text[start:end] of the i-th match *)
SectionBlock(text, i) ==
  LET matches == HeadingMatches(text)
  IN SubSeq(text, matches[i].end + 1,
            IF i + 1 <= Len(matches) THEN matches[i + 1].start - 1 ELSE Len(text))

(* re.findall of fence, bash, lazy group, fence: the groups of the leftmost *)
(* non-overlapping matches; the lazy group ends at the nearest fence       *)
RECURSIVE BashBlocksFrom(_, _)
BashBlocksFrom(b, i) ==
  IF i > Len(b) THEN <<>>
  ELSE IF i + 1 <= Len(b) /\ b[i] = "FENCE" /\ b[i + 1] = "bash"
       THEN LET j == IndexFrom(b, "FENCE", i + 2)
            IN IF j = 0 THEN BashBlocksFrom(b, i + 1)
               ELSE <<SubSeq(b, i + 2, j - 1)>> \o BashBlocksFrom(b, j + 1)
       ELSE BashBlocksFrom(b, i + 1)

(* line.startswith("#") *)
StartsWithHash(line) == line # <<>> /\ line[1] \in {"#", "###"}

(* lines = [line.strip() for line in c.strip().split("\n") if line.strip()] *)
StrippedLines(c) ==
  LET raw == SplitLines(Strip(c))
  IN SelectSeq([k \in 1..Len(raw) |-> Strip(raw[k])], LAMBDA l : l # <<>>)

extract_kubectl_steps_keep_comments(block) ==
  LET cmds == BashBlocksFrom(block, 1)
  IN Concat([k \in 1..Len(cmds) |-> StrippedLines(cmds[k])])

extract_kubectl_steps(block) ==
  LET cmds == BashBlocksFrom(block, 1)
  IN Concat([k \in 1..Len(cmds) |->
               SelectSeq(StrippedLines(cmds[k]), LAMBDA l : ~StartsWithHash(l))])

(* the members of the record the properties are about *)
create_json_obj(title, block, obj_id) ==
  LET steps == extract_kubectl_steps(block)
  IN [id |-> <<ID_PREFIX, ToString(obj_id)>>,
      title |-> Strip(title),
      steps |-> [i \in 1..Len(steps) |-> <<ToString(i), ".", " ">> \o steps[i]]]

(* sorted(Path(INPUT_DIR).glob("*.md")): file names are one letter and ".md" *)
Letters == <<"a", "b", "c", "d">>

LetterRank(l) == CHOOSE r \in 1..Len(Letters) : Letters[r] = l

SortedMd == SortSeq(md, LAMBDA x, y : LetterRank(x.name[1]) < LetterRank(y.name[1]))

(* Input sets *)
Flatten(lines) ==
  LET RECURSIVE J(_)
      J(ls) == IF ls = <<>> THEN <<>>
               ELSE IF Len(ls) = 1 THEN ls[1]
               ELSE ls[1] \o <<"\n">> \o J(Tail(ls))
  IN J(lines)

HeadingLine == <<"###", " ", "T", " ">>

MdLineSet == {HeadingLine, <<"a">>}

SmallTexts == {Flatten(ls) : ls \in SeqsUpTo(MdLineSet, MaxMdLines)}

BlockLineSet == {<<"FENCE", "bash">>, <<"FENCE">>, <<"a">>, <<" ", "b", " ">>,
                 <<" ", "#", "a">>, <<>>}

RichTexts == {Flatten(<<HeadingLine>> \o ls) : ls \in SeqsUpTo(BlockLineSet, MaxBlockLines)}

MdNameSet == {"a", "b", "c"}

NormIdle ==
  /\ names = <<>>
  /\ perms = <<>>
  /\ disk = <<>>
  /\ start = <<>>
  /\ pc = "idle"
  /\ idx = 1
  /\ question = EmptyDoc
  /\ total_files = 0
  /\ updated_files = 0
  /\ attempts = <<>>
  /\ results = <<>>
  /\ run = 1

ExtStart(files) ==
  /\ md = files
  /\ epc = "loop"
  /\ fileIdx = 1
  /\ secIdx = 1
  /\ current_id = START_ID
  /\ out = <<>>

(* a directory of several files in listing order, some unreadable (the     *)
(* content of an unreadable file plays no part)                            *)
InitMdTree ==
  \E k \in 1..MaxMdFiles :
    \E nm \in [1..k -> MdNameSet], rd \in [1..k -> BOOLEAN], tx \in [1..k -> SmallTexts] :
      /\ \A i, j \in 1..k : i # j => nm[i] # nm[j]
      /\ \A i \in 1..k : ~rd[i] => tx[i] = <<>>
      /\ ExtStart([i \in 1..k |->
                     [name |-> <<nm[i], ".md">>, readable |-> rd[i], text |-> tx[i]]])

(* one readable file holding one heading and a body of arbitrary lines *)
InitMdRich ==
  \E t \in RichTexts :
    ExtStart(<<[name |-> <<"a", ".md">>, readable |-> TRUE, text |-> t]>>)

InitExt == (InitMdTree \/ InitMdRich) /\ NormIdle

CurrentMd == SortedMd[fileIdx]

(* open(md_file) raises: nothing catches it, main() ends with a traceback *)
OpenMdFail ==
  /\ epc = "loop"
  /\ fileIdx <= Len(md)
  /\ ~CurrentMd.readable
  /\ epc' = "aborted"
  /\ UNCHANGED <<md, fileIdx, secIdx, current_id, out>>
  /\ UNCHANGED normVars

(* the file is read and its headings are found *)
OpenMd ==
  /\ epc = "loop"
  /\ fileIdx <= Len(md)
  /\ CurrentMd.readable
  /\ epc' = "sections"
  /\ secIdx' = 1
  /\ UNCHANGED <<md, fileIdx, current_id, out>>
  /\ UNCHANGED normVars

WriteSection_no_increment ==
  /\ epc = "sections"
  /\ secIdx <= Len(HeadingMatches(CurrentMd.text))
  /\ LET obj == create_json_obj(HeadingMatches(CurrentMd.text)[secIdx].title,
                                SectionBlock(CurrentMd.text, secIdx), current_id)
     IN out' = Append(out, [file |-> obj.id \o <<".json">>, obj |-> obj,
                            src |-> <<CurrentMd.name, secIdx>>])
  /\ secIdx' = secIdx + 1
  /\ UNCHANGED <<md, epc, fileIdx, current_id>>
  /\ UNCHANGED normVars

(* one iteration of the loop over the matches: the record is built and     *)
(* written to <id>.json, current_id += 1                                   *)
WriteSection ==
  /\ epc = "sections"
  /\ secIdx <= Len(HeadingMatches(CurrentMd.text))
  /\ LET obj == create_json_obj(HeadingMatches(CurrentMd.text)[secIdx].title,
                                SectionBlock(CurrentMd.text, secIdx), current_id)
     IN out' = Append(out, [file |-> obj.id \o <<".json">>, obj |-> obj,
                            src |-> <<CurrentMd.name, secIdx>>])
  /\ current_id' = current_id + 1
  /\ secIdx' = secIdx + 1
  /\ UNCHANGED <<md, epc, fileIdx>>
  /\ UNCHANGED normVars

(* the matches of the file are exhausted *)
EndOfFile ==
  /\ epc = "sections"
  /\ secIdx > Len(HeadingMatches(CurrentMd.text))
  /\ fileIdx' = fileIdx + 1
  /\ epc' = "loop"
  /\ UNCHANGED <<md, secIdx, current_id, out>>
  /\ UNCHANGED normVars

(* the loop over the files ends: "Done! Generated ..." *)
Done ==
  /\ epc = "loop"
  /\ fileIdx > Len(md)
  /\ epc' = "done"
  /\ UNCHANGED <<md, fileIdx, secIdx, current_id, out>>
  /\ UNCHANGED normVars

NextExt ==
  \/ OpenMdFail
  \/ OpenMd
  \/ WriteSection
  \/ EndOfFile
  \/ Done

SpecExt == InitExt /\ [][NextExt]_vars

-----------------------------------------------------------------------------
(* ================== Properties of the Normalizer ======================= *)

PlanetList == <<"saturn", "venus", "pluto", "mars", "mercury", "jupiter", "uranus", "neptune">>

PlanetSet == {"saturn", "venus", "pluto", "mars", "mercury", "jupiter", "uranus", "neptune"}

Files == 1..Len(names)

(* file f was processed successfully in the current run *)
Succeeded(f) == results[f] = "ok"

AssignedOf(f) == PlanetList[(QuestionNum(names[f]) % 8) + 1]

PlaceholderNs(nsField) ==
  nsField # Absent /\ Len(nsField[1]) = 1 /\ nsField[1][1] \in PlanetSet \cup {""}

CustomNs(nsField) ==
  /\ nsField # Absent
  /\ \/ Len(nsField[1]) > 1
     \/ Len(nsField[1]) = 1 /\ nsField[1][1] \notin PlanetSet \cup {""}

(* C1: after a successful pass over a file whose first run of digits is n, *)
(* a one-element namespaces array holding "" or a recognized name has      *)
(* become [L[n mod 8]]; any other namespaces field is unchanged.           *)
C1_NamespaceField ==
  \A f \in Files :
    Succeeded(f) =>
      LET before == start[f].doc.namespaces
          after == disk[f].doc.namespaces
      IN IF PlaceholderNs(before)
         THEN after = Present(<<AssignedOf(f)>>)
         ELSE after = before

C1_Witness ==
  /\ Len(names) = 1
  /\ Succeeded(1)
  /\ names[1] = <<"q", "1", "6", ".json">>
  /\ start[1].doc.namespaces = Present(<<"neptune">>)
  /\ disk[1].doc.namespaces = Present(<<"saturn">>)

(* C2: a second pass over the output of the first pass changes nothing.    *)
C2_Idempotent ==
  \A f \in Files : (run = 2 /\ Succeeded(f)) => disk[f] = start[f]

(* C3: after a successful pass the description holds no marker ||other||   *)
(* of a recognized namespace other than the assigned one.                  *)
C3_NoOtherMarker ==
  \A f \in Files :
    (Succeeded(f) /\ disk[f].doc.description # Absent) =>
      LET d == disk[f].doc.description[1]
      IN \A other \in PlanetSet \ {AssignedOf(f)} :
           \A i \in 1..Len(d) : ~MarkerAt(d, i, other)

(* positions of s where flag, white space and a namespace of nss, ended by *)
(* a word boundary, occur                                                  *)
FlagOccurrences(s, flag, nss) ==
  {i \in 1..Len(s) : \E ns \in nss : FlagMatchEnd(s, i, flag, ns) > 0}

CommandRewritten(before, after, assigned) ==
  \A flag \in {"-n", "--namespace"} :
    /\ FlagOccurrences(after, flag, PlanetSet \ {assigned}) = {}
    /\ Cardinality(FlagOccurrences(after, flag, {assigned}))
         = Cardinality(FlagOccurrences(before, flag, PlanetSet))

(* C4: after a successful pass every `-n <other>` and `--namespace <other>`*)
(* of every step and validation command has become `-n <assigned>` /       *)
(* `--namespace <assigned>`, none is left, and the number and order of     *)
(* steps and validation entries is kept.                                   *)
C4_CommandsRewritten ==
  \A f \in Files :
    Succeeded(f) =>
      LET b == start[f].doc
          a == disk[f].doc
      IN /\ (b.steps = Absent) = (a.steps = Absent)
         /\ b.steps # Absent =>
              /\ Len(a.steps[1]) = Len(b.steps[1])
              /\ \A i \in 1..Len(b.steps[1]) :
                   CommandRewritten(b.steps[1][i], a.steps[1][i], AssignedOf(f))
         /\ (b.validations = Absent) = (a.validations = Absent)
         /\ b.validations # Absent =>
              /\ Len(a.validations[1]) = Len(b.validations[1])
              /\ \A i \in 1..Len(b.validations[1]) :
                   LET bc == b.validations[1][i].command
                       ac == a.validations[1][i].command
                   IN IF bc = Absent THEN ac = Absent
                      ELSE ac # Absent /\ CommandRewritten(bc[1], ac[1], AssignedOf(f))

C4_Witness ==
  /\ Len(names) = 1
  /\ Succeeded(1)
  /\ start[1].doc.steps # Absent
  /\ start[1].doc.validations # Absent
  /\ LET s == start[1].doc.steps[1][1]
         others == PlanetSet \ {AssignedOf(1)}
     IN /\ Cardinality(FlagOccurrences(s, "-n", others)) >= 2
        /\ Cardinality(FlagOccurrences(s, "--namespace", others)) >= 1
        /\ disk[1].doc.steps[1][1] # s

(* C5: a pass leaves a file with a custom namespaces array (several        *)
(* entries, or one unrecognized entry) wholly untouched.                   *)
C5_CustomUntouched ==
  \A f \in Files :
    (Succeeded(f) /\ CustomNs(start[f].doc.namespaces)) => disk[f].doc = start[f].doc

JsonFiles == {f \in Files : EndsWithJson(names[f])}

C6_Counts ==
  /\ \A f \in Files : attempts[f] <= 1
  /\ pc = "summary" =>
       /\ \A f \in Files : attempts[f] = IF f \in JsonFiles THEN 1 ELSE 0
       /\ total_files = Cardinality(JsonFiles)
       /\ updated_files = Cardinality({f \in Files : results[f] = "ok"})
       /\ total_files - updated_files = Cardinality({f \in Files : results[f] = "fail"})

(* C6: whatever subset of the files fails, every .json file is attempted   *)
(* exactly once, the run reaches the summary, and there total, succeeded   *)
(* and failed are the numbers of files found, of successes and of failures.*)
C6_PartialFailure == []C6_Counts /\ ((pc # "summary") ~> (pc = "summary"))

C6_Witness ==
  /\ pc = "summary"
  /\ Len(names) >= 2
  /\ results[1] = "fail"
  /\ results[2] = "ok"
  /\ total_files = 2
  /\ updated_files = 1

(* C10: when a run is interrupted, every file on disk holds either its     *)
(* original content or its complete updated document.                      *)
C10_CrashConsistent ==
  pc = "crashed" =>
    \A f \in Files :
      \/ disk[f] = start[f]
      \/ /\ HasNumber(names[f])
         /\ start[f].st = "full"
         /\ disk[f] = FullFile(FixDoc(start[f].doc, AssignedOf(f)))

-----------------------------------------------------------------------------
(* ================== Properties of the Extractor ======================== *)

MdIndexes == 1..Len(md)

(* the file of the directory that is called l.md *)
MdNamed(l) == CHOOSE f \in Range(md) : f.name = <<l, ".md">>

NumSections(file) == Len(HeadingMatches(file.text))

Terminated == epc \in {"done", "aborted"}

Written(name, s) == \E k \in 1..Len(out) : out[k].src = <<name, s>>

(* C7: when reading one markdown file fails, the run still processes the   *)
(* other files: once it has ended, every section of every readable file    *)
(* has been written.                                                       *)
C7_ReadFailureIsLocal ==
  Terminated =>
    \A i \in MdIndexes :
      md[i].readable => \A s \in 1..NumSections(md[i]) : Written(md[i].name, s)

(* The section body as a sequence of lines, and its fenced blocks read     *)
(* line by line: a block opens at a line that is a fence tagged bash and   *)
(* closes at the next line that starts with a fence; a block that is never *)
(* closed is no block.                                                     *)
RECURSIVE TrimLeft(_)
TrimLeft(l) == IF l # <<>> /\ l[1] \in {" ", "\n"} THEN TrimLeft(Tail(l)) ELSE l

RECURSIVE TrimRight(_)
TrimRight(l) ==
  IF l # <<>> /\ l[Len(l)] \in {" ", "\n"} THEN TrimRight(SubSeq(l, 1, Len(l) - 1)) ELSE l

Trimmed(l) == TrimRight(TrimLeft(l))

IsStepLine(l) == Trimmed(l) # <<>> /\ Trimmed(l)[1] # "#"

RECURSIVE BlockLines(_, _, _, _)
BlockLines(lines, i, inBlock, pending) ==
  IF i > Len(lines) THEN <<>>
  ELSE IF ~inBlock
       THEN BlockLines(lines, i + 1, lines[i] = <<"FENCE", "bash">>, <<>>)
       ELSE IF lines[i] # <<>> /\ lines[i][1] = "FENCE"
            THEN pending \o BlockLines(lines, i + 1, FALSE, <<>>)
            ELSE BlockLines(lines, i + 1, TRUE, Append(pending, lines[i]))

ExpectedSteps(block) ==
  LET kept == SelectSeq(BlockLines(SplitLines(block), 1, FALSE, <<>>), IsStepLine)
  IN [k \in 1..Len(kept) |-> <<ToString(k), ".", " ">> \o Trimmed(kept[k])]

BlockOf(src) ==
  LET file == MdNamed(src[1][1])
  IN SectionBlock(file.text, src[2])

RECURSIVE Ascending(_)
Ascending(ls) ==
  IF ls = {} THEN <<>>
  ELSE LET m == CHOOSE l \in ls : \A o \in ls : LetterRank(l) <= LetterRank(o)
       IN <<m>> \o Ascending(ls \ {m})

(* every section of the run: files in ascending name order, sections in    *)
(* order of appearance                                                     *)
AllSections ==
  LET order == Ascending({md[i].name[1] : i \in MdIndexes})
  IN Concat([f \in 1..Len(order) |->
               [s \in 1..NumSections(MdNamed(order[f])) |-> <<<<order[f], ".md">>, s>>]])

(* C9: the k-th section of the run gets the id ID_PREFIX + (START_ID+k-1)  *)
(* and the file <id>.json, no id or file is used twice, and the number of  *)
(* records is current_id - START_ID and, at the end, the number of         *)
(* sections.                                                               *)
C9_IdSequence ==
  LET all == AllSections
  IN /\ Len(out) <= Len(all)
     /\ \A k \in 1..Len(out) :
          /\ out[k].src = all[k]
          /\ out[k].obj.id = <<"ckad-i-", ToString(101 + k - 1)>>
          /\ out[k].file = <<"ckad-i-", ToString(101 + k - 1), ".json">>
     /\ \A j, k \in 1..Len(out) :
          j # k => (out[j].obj.id # out[k].obj.id /\ out[j].file # out[k].file)
     /\ Len(out) = current_id - START_ID
     /\ epc = "done" => Len(out) = Len(all)

C9_Witness ==
  /\ epc = "done"
  /\ Len(md) = 2
  /\ md[1].name = <<"b", ".md">>
  /\ md[2].name = <<"a", ".md">>
  /\ NumSections(md[1]) = 2
  /\ NumSections(md[2]) = 1
  /\ Len(out) = 3
  /\ out[1].src = <<<<"a", ".md">>, 1>>
  /\ out[3].obj.id = <<"ckad-i-", "103">>

=============================================================================
